---- MODULE Spec2Model ----
(***************************************************************************)
(* A model of skill/git_tools.py: the conflict-marker parser, the conflict *)
(* classifier, the validation gate and the command-line dispatcher.        *)
(*                                                                         *)
(* Text is a sequence of one-character strings.  Line indices (i, start,   *)
(* separator_idx, end_idx) are 0-based as in the Python source; a TLA+     *)
(* sequence is 1-based, so line i of the source is lines[i + 1] here.      *)
(***************************************************************************)
EXTENDS Naturals, Integers, Sequences, FiniteSets, TLC

VARIABLES
    file,   \* the working-tree file: [readable, content]
    env,    \* the invocation: command line arguments and the outcomes of the external tools
    pc,     \* position of the running operation
    ps,     \* locals of parse_conflict_markers
    cs,     \* locals of categorize_conflict
    out     \* what the operation returned or printed

vars == <<file, env, pc, ps, cs, out>>

-----------------------------------------------------------------------------
(* Bounds of the model *)

\* longest file, in lines, handed to the parser on its own
MaxLines == 6

\* most conflict blocks in a file handed to the classifier
MaxBlocks == 4

-----------------------------------------------------------------------------
(* Python values *)

\* Python's None where the source holds an index or None
None == -1

\* truth value of an Optional[int] in `if x:`: None and 0 are both false
Truthy(x) == x # None /\ x # 0

-----------------------------------------------------------------------------
(* str operations *)

\* characters str.strip() removes (the ASCII ones)
Whitespace == {" ", "\t", "\n", "\r"}

Digits == {"0", "1", "2", "3", "4", "5", "6", "7", "8", "9"}

Letters ==
    {"a", "b", "c", "d", "e", "f", "g", "h", "i", "j", "k", "l", "m",
     "n", "o", "p", "q", "r", "s", "t", "u", "v", "w", "x", "y", "z", "H"}

\* the characters the regular expression \w matches
WordChars == Letters \cup Digits \cup {"_"}

\* s.startswith(p)
StartsWith(s, p) == Len(s) >= Len(p) /\ SubSeq(s, 1, Len(p)) = p

\* p in s
Contains(s, p) ==
    \E k \in 0..(Len(s) - Len(p)) : SubSeq(s, k + 1, k + Len(p)) = p

RECURSIVE LStrip(_)
LStrip(s) ==
    IF s # <<>> /\ Head(s) \in Whitespace THEN LStrip(Tail(s)) ELSE s

RECURSIVE RStrip(_)
RStrip(s) ==
    IF s # <<>> /\ s[Len(s)] \in Whitespace
    THEN RStrip(SubSeq(s, 1, Len(s) - 1))
    ELSE s

\* s.strip()
Strip(s) == RStrip(LStrip(s))

\* s.replace(c, '') for a single character c
RECURSIVE Remove(_, _)
Remove(s, c) ==
    IF s = <<>> THEN <<>>
    ELSE IF Head(s) = c THEN Remove(Tail(s), c)
    ELSE <<Head(s)>> \o Remove(Tail(s), c)

\* ''.join(ls)
RECURSIVE Join(_)
Join(ls) == IF ls = <<>> THEN <<>> ELSE Head(ls) \o Join(Tail(ls))

\* content.splitlines(keepends=True), for the terminators \n, \r and \r\n:
\* position j ends a line
IsLineEnd(s, j) ==
    \/ s[j] = "\n"
    \/ s[j] = "\r" /\ ~(j < Len(s) /\ s[j + 1] = "\n")
    \/ j = Len(s)

\* the lines of s from position k on
RECURSIVE SplitFrom(_, _)
SplitFrom(s, k) ==
    IF k > Len(s) THEN <<>>
    ELSE LET e == CHOOSE j \in k..Len(s) :
                     IsLineEnd(s, j) /\ \A x \in k..(j - 1) : ~IsLineEnd(s, x)
         IN  <<SubSeq(s, k, e)>> \o SplitFrom(s, e + 1)

SplitLines(s) == SplitFrom(s, 1)

\* set(re.findall(r'\w+', s)): the maximal runs of word characters
RECURSIVE WordsFrom(_, _, _, _)
WordsFrom(s, k, cur, acc) ==
    IF k > Len(s) THEN (IF cur = <<>> THEN acc ELSE acc \cup {cur})
    ELSE IF s[k] \in WordChars THEN WordsFrom(s, k + 1, Append(cur, s[k]), acc)
    ELSE WordsFrom(s, k + 1, <<>>, IF cur = <<>> THEN acc ELSE acc \cup {cur})

WordSet(s) == WordsFrom(s, 1, <<>>, {})

\* d.isdigit()
IsDigit(d) == d # <<>> /\ \A k \in 1..Len(d) : d[k] \in Digits

-----------------------------------------------------------------------------
(* parse_conflict_markers *)

MarkerOpen == <<"<", "<", "<", "<", "<", "<", "<">>
MarkerSep == <<"=", "=", "=", "=", "=", "=", "=">>
MarkerClose == <<">", ">", ">", ">", ">", ">", ">">>

\* the locals on entry, after splitlines; start .. end_idx are unbound until a block opens
ParseStart(lines) ==
    [pc |-> "outer", lines |-> lines, i |-> 0, start |-> None,
     ours_lines |-> <<>>, theirs_lines |-> <<>>,
     separator_idx |-> None, end_idx |-> None, conflicts |-> <<>>]

\* the dictionary appended for a finished block
ConflictEntryZeroBased(q) ==
    [start_line |-> q.start, end_line |-> q.end_idx,
     ours |-> Join(q.ours_lines), theirs |-> Join(q.theirs_lines),
     ours_label |-> Strip(q.lines[q.start + 1]),
     theirs_label |-> Strip(q.lines[q.end_idx + 1])]

ConflictEntry(q) ==
    [start_line |-> q.start + 1, end_line |-> q.end_idx + 1,
     ours |-> Join(q.ours_lines), theirs |-> Join(q.theirs_lines),
     ours_label |-> Strip(q.lines[q.start + 1]),
     theirs_label |-> Strip(q.lines[q.end_idx + 1])]

\* conflicts.append(...)
EmitConflictInFront(q) == <<ConflictEntry(q)>> \o q.conflicts

EmitConflict(q) == Append(q.conflicts, ConflictEntry(q))

\* `if separator_idx and end_idx:` and the outer loop's `i += 1`
FinishBlock(q) ==
    IF Truthy(q.separator_idx) /\ Truthy(q.end_idx)
    THEN [q EXCEPT !.conflicts = EmitConflict(q), !.i = q.i + 1, !.pc = "outer"]
    ELSE [q EXCEPT !.i = q.i + 1, !.pc = "outer"]

\* `if separator_idx:` after the first inner loop
AfterOurs(q) ==
    IF Truthy(q.separator_idx)
    THEN [q EXCEPT !.i = q.i + 1, !.pc = "theirs"]
    ELSE FinishBlock(q)

\* one test of the outer `while i < len(lines)`
ScanOutside(p) ==
    IF p.i >= Len(p.lines) THEN [p EXCEPT !.pc = "done"]
    ELSE IF StartsWith(p.lines[p.i + 1], MarkerOpen)
    THEN [p EXCEPT !.start = p.i, !.ours_lines = <<>>, !.theirs_lines = <<>>,
                   !.separator_idx = None, !.end_idx = None,
                   !.i = p.i + 1, !.pc = "ours"]
    ELSE [p EXCEPT !.i = p.i + 1]

\* one test of the first inner loop (find separator)
CollectOurs(p) ==
    IF p.i < Len(p.lines)
    THEN IF StartsWith(p.lines[p.i + 1], MarkerSep)
         THEN AfterOurs([p EXCEPT !.separator_idx = p.i])
         ELSE [p EXCEPT !.ours_lines = Append(p.ours_lines, p.lines[p.i + 1]),
                        !.i = p.i + 1]
    ELSE AfterOurs(p)

\* a variant in which the end of input closes an open block
CollectTheirsEofCloses(p) ==
    IF p.i < Len(p.lines)
    THEN IF StartsWith(p.lines[p.i + 1], MarkerClose)
         THEN FinishBlock([p EXCEPT !.end_idx = p.i])
         ELSE [p EXCEPT !.theirs_lines = Append(p.theirs_lines, p.lines[p.i + 1]),
                        !.i = p.i + 1]
    ELSE FinishBlock([p EXCEPT !.end_idx = p.i - 1])

\* one test of the second inner loop (find end marker)
CollectTheirs(p) ==
    IF p.i < Len(p.lines)
    THEN IF StartsWith(p.lines[p.i + 1], MarkerClose)
         THEN FinishBlock([p EXCEPT !.end_idx = p.i])
         ELSE [p EXCEPT !.theirs_lines = Append(p.theirs_lines, p.lines[p.i + 1]),
                        !.i = p.i + 1]
    ELSE FinishBlock(p)

ParseStep(p) ==
    CASE p.pc = "outer" -> ScanOutside(p)
      [] p.pc = "ours" -> CollectOurs(p)
      [] p.pc = "theirs" -> CollectTheirs(p)
      [] OTHER -> p

RECURSIVE ParseRun(_)
ParseRun(p) == IF p.pc = "done" THEN p ELSE ParseRun(ParseStep(p))

\* the function as a whole
ParseConflictMarkers(content) == ParseRun(ParseStart(SplitLines(content))).conflicts

-----------------------------------------------------------------------------
(* run_git_command: the version-control tool as the environment answers it *)

\* what an invocation of git may do: exit 0, exit non-zero, or fail to start
GitOutcomes == {"ok", "fail", "missing"}

\* the queries the commands make
GitQueries ==
    {"status", "show1", "show2", "show3", "merge-base", "log-ours", "log-theirs", "branch"}

\* an Optional value: None is the empty sequence, a value x is <<x>>
Null == <<>>
Some(x) == <<x>>

\* a variant that never raises: every failure comes back as a result
RunGitCommandUnchecked(e, q, check) ==
    IF e.git[q] = "ok"
    THEN [raised |-> FALSE, returncode |-> 0, stdout |-> e.stdout[q]]
    ELSE [raised |-> FALSE, returncode |-> 1, stdout |-> <<>>]

\* subprocess.run(['git'] + args, check=check); stdout is the lines of the
\* tool's output.  A non-zero exit raises
\* CalledProcessError only under check=True; a git that cannot be started
\* raises from subprocess.run whatever check is
RunGitCommand(e, q, check) ==
    CASE e.git[q] = "ok" -> [raised |-> FALSE, returncode |-> 0, stdout |-> e.stdout[q]]
      [] e.git[q] = "fail" ->
            IF check
            THEN [raised |-> TRUE, returncode |-> 1, stdout |-> <<>>]
            ELSE [raised |-> FALSE, returncode |-> 1, stdout |-> <<>>]
      [] OTHER -> [raised |-> TRUE, returncode |-> 127, stdout |-> <<>>]

\* what git prints when it answers, as lines
GitStdout ==
    [q \in GitQueries |->
        CASE q = "status" -> <<<<"U", "U", " ", "a", ".", "p", "y">>,
                               <<"M", " ", " ", "b", ".", "p", "y">>,
                               <<"A", "A", " ", "c", ".", "p", "y">>>>
          [] q = "show1" -> <<"blob:base">>
          [] q = "show2" -> <<"blob:ours">>
          [] q = "show3" -> <<"blob:theirs">>
          [] q = "merge-base" -> <<"abc1234">>
          [] q = "log-ours" -> <<"1111111 ours">>
          [] q = "log-theirs" -> <<"2222222 theirs">>
          [] OTHER -> <<>>]

\* an invocation: the command line, and how git and ast.parse answer
DefaultEnv ==
    [command |-> "none", filepath |-> "f.py", with_context |-> FALSE,
     language |-> Null, name |-> Null,
     git |-> [q \in GitQueries |-> "ok"], stdout |-> GitStdout, ast |-> "ok"]

-----------------------------------------------------------------------------
(* extract_three_way *)

\* one pass of the loop over the stages: the blob, or None when git failed
Stage(e, q) ==
    LET result == RunGitCommand(e, q, FALSE)
    IN  IF result.raised THEN Null
        ELSE IF result.returncode = 0 THEN Some(result.stdout) ELSE Null

\* the markers of the working-tree file; [] when it cannot be read
ReadMarkers(f) ==
    IF f.readable THEN ParseConflictMarkers(f.content) ELSE <<>>

ExtractThreeWay(f, e) ==
    [filepath |-> e.filepath,
     base |-> Stage(e, "show1"),
     ours |-> Stage(e, "show2"),
     theirs |-> Stage(e, "show3"),
     markers |-> ReadMarkers(f)]

-----------------------------------------------------------------------------
(* categorize_conflict *)

ImportKeywords ==
    {<<"i", "m", "p", "o", "r", "t", " ">>,
     <<"f", "r", "o", "m", " ">>,
     <<"#", "i", "n", "c", "l", "u", "d", "e">>,
     <<"r", "e", "q", "u", "i", "r", "e", "(">>}

DefKeywords ==
    {<<"d", "e", "f", " ">>,
     <<"f", "u", "n", "c", "t", "i", "o", "n", " ">>,
     <<"f", "u", "n", "c", " ">>,
     <<"c", "l", "a", "s", "s", " ">>}

\* Difficulty.__lt__
DifficultyOrder == <<"EASY", "MEDIUM", "HARD", "ESCALATE">>

OrderIndex(v) == CHOOSE k \in 1..Len(DifficultyOrder) : DifficultyOrder[k] = v

DifficultyLt(a, b) == OrderIndex(a) < OrderIndex(b)

\* max(a, b): b only when it is greater than a
DifficultyMax(a, b) == IF DifficultyLt(a, b) THEN b ELSE a

\* 1. IMPORT
IsImport(ours, theirs) ==
    \E keyword \in ImportKeywords : Contains(ours \o theirs, keyword)

NoBlanks(s) == Remove(Remove(Remove(s, " "), "\t"), "\n")

\* 2. WHITESPACE
IsWhitespace(ours, theirs) == NoBlanks(ours) = NoBlanks(theirs)

\* 3. FUNCTION SIGNATURE
IsFunctionSignature(ours, theirs) ==
    \E keyword \in DefKeywords : Contains(ours \o theirs, keyword)

\* 4. RENAME
IsRename(ours, theirs) ==
    LET ours_words == WordSet(ours)
        theirs_words == WordSet(theirs)
        diff == (ours_words \ theirs_words) \cup (theirs_words \ ours_words)
        is_numeric_change == \E d \in diff : IsDigit(d)
    IN  /\ ~is_numeric_change
        /\ Cardinality(diff) < 3
        /\ Cardinality(ours_words) > 0

\* the type one pass of the loop appends
BlockType(marker) ==
    LET ours == Strip(marker.ours)
        theirs == Strip(marker.theirs)
    IN  IF IsImport(ours, theirs) THEN "IMPORT"
        ELSE IF IsWhitespace(ours, theirs) THEN "WHITESPACE"
        ELSE IF IsFunctionSignature(ours, theirs) THEN "FUNCTION_SIGNATURE"
        ELSE IF IsRename(ours, theirs) THEN "RENAME"
        ELSE "LOGIC"

\* a variant that assigns the floor instead of taking the maximum
DifficultyAfterAssigned(max_difficulty, type) ==
    CASE type \in {"FUNCTION_SIGNATURE", "RENAME"} -> "MEDIUM"
      [] type = "LOGIC" -> "HARD"
      [] OTHER -> max_difficulty

\* max_difficulty after a block of the given type
DifficultyAfter(max_difficulty, type) ==
    CASE type \in {"FUNCTION_SIGNATURE", "RENAME"} -> DifficultyMax(max_difficulty, "MEDIUM")
      [] type = "LOGIC" -> "HARD"
      [] OTHER -> max_difficulty

\* a variant of the early return's test that never returns early
NoMarkersNever(markers) == FALSE

\* `if not markers:`
NoMarkers(markers) == markers = <<>>

UnknownVerdict ==
    [kind |-> "verdict", type |-> "UNKNOWN", difficulty |-> "MEDIUM",
     auto_resolvable |-> FALSE, reason |-> "No conflict markers found"]

\* the locals before the loop over the markers
ClassifyStart(markers) ==
    [pc |-> "loop", markers |-> markers, k |-> 0,
     conflict_types |-> <<>>, max_difficulty |-> "EASY"]

\* one pass of `for marker in markers`
ClassifyStep(c) ==
    LET type == BlockType(c.markers[c.k + 1])
    IN  [c EXCEPT !.conflict_types = Append(c.conflict_types, type),
                  !.max_difficulty = DifficultyAfter(c.max_difficulty, type),
                  !.k = c.k + 1]

RECURSIVE ClassifyRun(_)
ClassifyRun(c) == IF c.k >= Len(c.markers) THEN c ELSE ClassifyRun(ClassifyStep(c))

Priority == <<"LOGIC", "FUNCTION_SIGNATURE", "REFACTOR", "RENAME", "IMPORT", "WHITESPACE">>

\* Determine primary type
PrimaryType(conflict_types) ==
    IF conflict_types = <<>> THEN "UNKNOWN"
    ELSE LET present == {k \in 1..Len(Priority) :
                            \E j \in 1..Len(conflict_types) : conflict_types[j] = Priority[k]}
         IN  IF present = {} THEN conflict_types[1]
             ELSE Priority[CHOOSE k \in present : \A j \in present : k <= j]

\* a variant with any() for all()
AutoResolvableAny(conflict_types) ==
    \E k \in 1..Len(conflict_types) : conflict_types[k] \in {"IMPORT", "WHITESPACE"}

AutoResolvable(conflict_types) ==
    \A k \in 1..Len(conflict_types) : conflict_types[k] \in {"IMPORT", "WHITESPACE"}

\* a variant that escalates from three blocks on
EscalateFromThree(primary_type, max_difficulty, n) ==
    IF primary_type = "LOGIC"
    THEN (IF n >= 3 THEN "ESCALATE" ELSE "HARD")
    ELSE max_difficulty

\* Escalate logic
Escalate(primary_type, max_difficulty, n) ==
    IF primary_type = "LOGIC"
    THEN (IF n > 3 THEN "ESCALATE" ELSE "HARD")
    ELSE max_difficulty

\* the dictionary returned after the loop
Verdict(c) ==
    LET primary_type == PrimaryType(c.conflict_types)
    IN  [kind |-> "verdict",
         type |-> primary_type,
         difficulty |-> Escalate(primary_type, c.max_difficulty, Len(c.markers)),
         auto_resolvable |-> AutoResolvable(c.conflict_types),
         all_types |-> c.conflict_types,
         num_conflicts |-> Len(c.markers)]

\* the function as a whole
CategorizeConflict(f, e) ==
    LET markers == ExtractThreeWay(f, e).markers
    IN  IF NoMarkers(markers) THEN UnknownVerdict
        ELSE Verdict(ClassifyRun(ClassifyStart(markers)))

-----------------------------------------------------------------------------
(* validate_file *)

\* Path(filepath).suffix of the paths the model uses
Suffix(filepath) ==
    CASE filepath = "f.py" -> ".py"
      [] filepath = "f.PY" -> ".PY"
      [] filepath = "m.go" -> ".go"
      [] filepath = "notes.txt" -> ".txt"
      [] OTHER -> ""

\* str.lower() of those suffixes
Lower(ext) == IF ext = ".PY" THEN ".py" ELSE ext

LangMap ==
    [ext \in {".py", ".js", ".ts", ".go", ".rs", ".java", ".cpp", ".c"} |->
        CASE ext = ".py" -> "python"
          [] ext = ".js" -> "javascript"
          [] ext = ".ts" -> "typescript"
          [] ext = ".go" -> "go"
          [] ext = ".rs" -> "rust"
          [] ext = ".java" -> "java"
          [] ext = ".cpp" -> "cpp"
          [] OTHER -> "c"]

\* the language hint, or the language of the extension
InferLanguage(e) ==
    IF e.language # Null THEN e.language[1]
    ELSE LET ext == Lower(Suffix(e.filepath))
         IN  IF ext \in DOMAIN LangMap THEN LangMap[ext] ELSE "unknown"

\* results before any check; syntax_valid is None, True or False
ValidateStart(e) ==
    [kind |-> "report", filepath |-> e.filepath, language |-> InferLanguage(e),
     syntax_valid |-> Null, semantic_errors |-> <<>>, warnings |-> <<>>]

\* Python syntax validation, or the placeholder of every other language.
\* ast.parse is the environment's: it accepts the code, raises SyntaxError, or
\* raises something else; reading an unreadable file raises before it runs.
LanguageCheck(r, f, e) ==
    IF r.language = "python"
    THEN IF ~f.readable
         THEN [r EXCEPT !.warnings = Append(r.warnings, "Validation error")]
         ELSE CASE e.ast = "ok" -> [r EXCEPT !.syntax_valid = Some(TRUE)]
                [] e.ast = "SyntaxError" ->
                    [r EXCEPT !.syntax_valid = Some(FALSE),
                              !.semantic_errors = Append(r.semantic_errors, "Line n: msg")]
                [] OTHER -> [r EXCEPT !.warnings = Append(r.warnings, "Validation error")]
    ELSE [r EXCEPT !.warnings = Append(r.warnings, "No syntax validator available"),
                   !.syntax_valid = Some(TRUE)]

\* Check for remaining conflict markers
MarkerCheck(r, f) ==
    IF ~f.readable
    THEN [r EXCEPT !.warnings = Append(r.warnings, "Could not check for markers")]
    ELSE IF \E marker \in {MarkerOpen, MarkerSep, MarkerClose} : Contains(f.content, marker)
    THEN [r EXCEPT !.semantic_errors =
                        Append(r.semantic_errors, "Conflict markers still present"),
                   !.syntax_valid = Some(FALSE)]
    ELSE r

\* the function as a whole
ValidateFile(f, e) == MarkerCheck(LanguageCheck(ValidateStart(e), f, e), f)

-----------------------------------------------------------------------------
(* list_conflicts, get_context, analyze_dependencies, create_backup *)

\* the paths of the porcelain lines marked UU or AA
ListConflicts(e) ==
    LET result == RunGitCommand(e, "status", TRUE)
        conflicted == SelectSeq(result.stdout,
                        LAMBDA line : \/ StartsWith(line, <<"U", "U", " ">>)
                                      \/ StartsWith(line, <<"A", "A", " ">>))
    IN  IF result.raised THEN [raised |-> TRUE, value |-> <<>>]
        ELSE [raised |-> FALSE,
              value |-> [k \in 1..Len(conflicted) |->
                            Strip(SubSeq(conflicted[k], 4, Len(conflicted[k])))]]

\* whether the file could be scanned; what the regular expressions of the
\* scanner extract from it is not modelled
AnalyzeDependencies(f) == [scanned |-> f.readable, variables |-> <<>>]

\* merge_base: None when the query raised, else what it printed
MergeBase(e) ==
    LET result == RunGitCommand(e, "merge-base", TRUE)
    IN  IF result.raised THEN Null
        ELSE Some(IF result.stdout = <<>> THEN "" ELSE result.stdout[1])

\* `if merge_base:`
HasMergeBase(e) == MergeBase(e) # Null /\ MergeBase(e)[1] # ""

GetContext(f, e) ==
    LET ours == RunGitCommand(e, "log-ours", FALSE)
        theirs == RunGitCommand(e, "log-theirs", FALSE)
    IN  [filepath |-> e.filepath,
         merge_base |-> MergeBase(e),
         ours_commits |-> IF HasMergeBase(e) /\ ~ours.raised THEN ours.stdout ELSE <<>>,
         theirs_commits |->
            IF HasMergeBase(e) /\ ~ours.raised /\ ~theirs.raised THEN theirs.stdout ELSE <<>>,
         dependencies |-> AnalyzeDependencies(f)]

CreateBackup(e) ==
    LET branch_name == IF e.name = Null THEN "backup-merge-<timestamp>" ELSE e.name[1]
        result == RunGitCommand(e, "branch", TRUE)
    IN  IF result.raised
        THEN [raised |-> TRUE, value |-> "Failed to create backup branch"]
        ELSE [raised |-> FALSE, value |-> branch_name]

-----------------------------------------------------------------------------
(* main *)

\* a line of plain text on standard error
Text(t) == [json |-> FALSE, text |-> t]

\* run_git_command's own message when a checked query exits non-zero
GitFailedLine(e, q) ==
    IF e.git[q] = "fail" THEN <<Text("Git command failed")>> ELSE <<>>

\* extract_three_way's warning
ExtractWarnings(f) ==
    IF f.readable THEN <<>> ELSE <<Text("Warning: Could not parse markers")>>

\* get_context's warning
ContextWarnings(e) ==
    GitFailedLine(e, "merge-base")
    \o (IF /\ HasMergeBase(e)
           /\ \/ RunGitCommand(e, "log-ours", FALSE).raised
              \/ RunGitCommand(e, "log-theirs", FALSE).raised
        THEN <<Text("Warning: Could not fetch commit history")>>
        ELSE <<>>)

\* print(json.dumps(doc)) and a normal return
Printed(doc, warnings) ==
    [kind |-> "exit", stdout |-> <<doc>>, stderr |-> warnings, exit_code |-> 0]

\* the handler of `except Exception`: the error object on stderr, sys.exit(1)
Failed(message, warnings) ==
    [kind |-> "exit", stdout |-> <<>>,
     stderr |-> Append(warnings, [json |-> TRUE, error |-> message]),
     exit_code |-> 1]

RunList(f, e) ==
    LET conflicts == ListConflicts(e)
    IN  IF conflicts.raised
        THEN Failed("git status failed", GitFailedLine(e, "status"))
        ELSE Printed([doc |-> "list", value |-> conflicts.value], <<>>)

RunExtract(f, e) ==
    LET data == ExtractThreeWay(f, e)
    IN  IF e.with_context
        THEN Printed([doc |-> "extract", data |-> data,
                      context |-> Some(GetContext(f, e)),
                      category |-> Some(CategorizeConflict(f, e))],
                     ExtractWarnings(f) \o ContextWarnings(e) \o ExtractWarnings(f))
        ELSE Printed([doc |-> "extract", data |-> data, context |-> Null, category |-> Null],
                     ExtractWarnings(f))

RunContext(f, e) ==
    Printed([doc |-> "context", value |-> GetContext(f, e)], ContextWarnings(e))

RunCategorize(f, e) ==
    Printed([doc |-> "categorize", value |-> CategorizeConflict(f, e)], ExtractWarnings(f))

RunValidate(f, e) ==
    Printed([doc |-> "validate", value |-> ValidateFile(f, e)], <<>>)

RunBackup(f, e) ==
    LET backup == CreateBackup(e)
    IN  IF backup.raised
        THEN Failed(backup.value, GitFailedLine(e, "branch"))
        ELSE Printed([doc |-> "backup", backup_branch |-> backup.value], <<>>)

\* no command: parser.print_help() and sys.exit(1), which `except Exception`
\* does not catch; the help text is not a JSON document
RunHelp(f, e) ==
    [kind |-> "exit", stdout |-> <<>>, stderr |-> <<>>, exit_code |-> 1]

-----------------------------------------------------------------------------
(* The parser on its own, one loop test per step *)

NoParse == [ParseStart(<<>>) EXCEPT !.pc = "idle"]
NoClassify == [pc |-> "idle"]
NoOut == [kind |-> "none"]

LineOpen == <<"<", "<", "<", "<", "<", "<", "<", " ", "H", "\n">>
LineSep == <<"=", "=", "=", "=", "=", "=", "=", "\n">>
LineClose == <<">", ">", ">", ">", ">", ">", ">", " ", "b", "\n">>
LineText == <<"a", "\n">>
LineBlank == <<"\n">>

ParseLineSamples == {LineOpen, LineSep, LineClose, LineText, LineBlank}

ParseInputs ==
    UNION {[1..n -> ParseLineSamples] : n \in 0..MaxLines}

InitParse ==
    /\ file \in {[readable |-> TRUE, content |-> Join(ls)] : ls \in ParseInputs}
    /\ env = [DefaultEnv EXCEPT !.command = "parse"]
    /\ pc = "parse"
    /\ ps = NoParse
    /\ cs = NoClassify
    /\ out = NoOut

ParseEnter ==
    /\ pc = "parse" /\ ps.pc = "idle"
    /\ ps' = ParseStart(SplitLines(file.content))
    /\ UNCHANGED <<file, env, pc, cs, out>>

ParseOutside ==
    /\ pc = "parse" /\ ps.pc = "outer"
    /\ ps' = ScanOutside(ps)
    /\ UNCHANGED <<file, env, pc, cs, out>>

ParseOurs ==
    /\ pc = "parse" /\ ps.pc = "ours"
    /\ ps' = CollectOurs(ps)
    /\ UNCHANGED <<file, env, pc, cs, out>>

ParseTheirs ==
    /\ pc = "parse" /\ ps.pc = "theirs"
    /\ ps' = CollectTheirs(ps)
    /\ UNCHANGED <<file, env, pc, cs, out>>

NextParse == ParseEnter \/ ParseOutside \/ ParseOurs \/ ParseTheirs

SpecParse == InitParse /\ [][NextParse]_vars

-----------------------------------------------------------------------------
(* The classifier on its own, one block per step *)

SampleWhitespace ==
    [ours |-> <<"x", " ", "=", " ", "1", "\n">>,
     theirs |-> <<"x", "=", "1", "\n">>]

SampleImport ==
    [ours |-> <<"i", "m", "p", "o", "r", "t", " ", "f", "o", "o", "\n">>,
     theirs |-> <<"i", "m", "p", "o", "r", "t", " ", "b", "a", "r", "\n">>]

SampleSignature ==
    [ours |-> <<"d", "e", "f", " ", "h", "a", "n", "d", "l", "e", "(", "x", ")", ":", "\n">>,
     theirs |-> <<"d", "e", "f", " ", "h", "a", "n", "d", "l", "e", "(", "x", ",", " ", "y", ")", ":", "\n">>]

SampleRename ==
    [ours |-> <<"t", "o", "t", "a", "l", " ", "=", " ", "o", "l", "d", "_", "n", "a", "m", "e", " ", "+", " ", "1", "\n">>,
     theirs |-> <<"t", "o", "t", "a", "l", " ", "=", " ", "n", "e", "w", "_", "n", "a", "m", "e", " ", "+", " ", "1", "\n">>]

SampleNumber ==
    [ours |-> <<"r", "e", "t", "r", "i", "e", "s", " ", "=", " ", "2", "\n">>,
     theirs |-> <<"r", "e", "t", "r", "i", "e", "s", " ", "=", " ", "3", "\n">>]

\* neither side holds a keyword; the end of ours and the start of theirs spell "from "
SampleSplitKeyword ==
    [ours |-> <<"a", " ", "f", "r", "o", "\n">>,
     theirs |-> <<"m", " ", "b", "\n">>]

BlockSamples ==
    {SampleWhitespace, SampleImport, SampleSignature, SampleRename,
     SampleNumber, SampleSplitKeyword}

\* a conflict region as git writes it into the working tree
BlockText(b) == LineOpen \o b.ours \o LineSep \o b.theirs \o LineClose

RECURSIVE BlocksText(_)
BlocksText(bs) ==
    IF bs = <<>> THEN <<>> ELSE BlockText(Head(bs)) \o LineText \o BlocksText(Tail(bs))

\* an opening marker and a separator that are never closed
OpenTail == LineOpen \o LineText \o LineSep \o LineText

BlockSeqs(n) == UNION {[1..k -> BlockSamples] : k \in 0..n}

\* the files handed to the classifier: up to MaxBlocks conflict regions with a
\* line of text around them
ConflictTexts == {LineText \o BlocksText(bs) : bs \in BlockSeqs(MaxBlocks)}

\* files that end in an unterminated region
OpenEndedTexts == {LineText \o BlocksText(bs) \o OpenTail : bs \in BlockSeqs(1)}

\* a file open() or read() raises on: missing, unreadable, or not UTF-8
UnreadableFiles ==
    {[readable |-> FALSE, content |-> LineText \o BlocksText(bs)] : bs \in BlockSeqs(1)}

\* git answers every query of the invocation the same way
UniformGit == {[q \in GitQueries |-> o] : o \in GitOutcomes}

AllOkGit == [q \in GitQueries |-> "ok"]

CategorizeEnv(g) == [DefaultEnv EXCEPT !.command = "categorize", !.git = g]

\* every file while git answers, and the small files under each answer of git
InitCategorize ==
    /\ \/ /\ file \in {[readable |-> TRUE, content |-> t] : t \in ConflictTexts}
          /\ env = CategorizeEnv(AllOkGit)
       \/ /\ file \in {[readable |-> TRUE, content |-> t] : t \in OpenEndedTexts}
                      \cup UnreadableFiles
          /\ env \in {CategorizeEnv(g) : g \in UniformGit}
    /\ pc = "categorize"
    /\ ps = NoParse
    /\ cs = NoClassify
    /\ out = NoOut

\* extract_three_way, then the early return or the start of the loop
CatExtract ==
    /\ pc = "categorize" /\ cs.pc = "idle"
    /\ LET markers == ExtractThreeWay(file, env).markers
       IN  IF NoMarkers(markers)
           THEN /\ out' = UnknownVerdict
                /\ pc' = "done"
                /\ cs' = [pc |-> "returned"]
           ELSE /\ cs' = ClassifyStart(markers)
                /\ UNCHANGED <<pc, out>>
    /\ UNCHANGED <<file, env, ps>>

CatClassify ==
    /\ pc = "categorize" /\ cs.pc = "loop"
    /\ cs.k < Len(cs.markers)
    /\ cs' = ClassifyStep(cs)
    /\ UNCHANGED <<file, env, pc, ps, out>>

CatAggregate ==
    /\ pc = "categorize" /\ cs.pc = "loop"
    /\ cs.k >= Len(cs.markers)
    /\ out' = Verdict(cs)
    /\ pc' = "done"
    /\ cs' = [cs EXCEPT !.pc = "returned"]
    /\ UNCHANGED <<file, env, ps>>

NextCategorize == CatExtract \/ CatClassify \/ CatAggregate

SpecCategorize == InitCategorize /\ [][NextCategorize]_vars

-----------------------------------------------------------------------------
(* The validation gate on its own, one check per step *)

\* a line that holds the separator token in its middle
LineInner == <<"x", " ", "=", "=", "=", "=", "=", "=", "=", " ", "y", "\n">>

ValidateTexts ==
    {LineText,
     LineText \o BlockText(SampleNumber),
     LineText \o OpenTail,
     LineText \o LineInner}

ValidatePaths == {"f.py", "f.PY", "m.go", "notes.txt", "Makefile"}

\* the file is any of the texts; when open() or read() raises on it (its
\* bytes are not all UTF-8, or it lost its read permission) the text is what
\* the rest of its bytes spell
InitValidate ==
    /\ file \in {[readable |-> r, content |-> t] : r \in BOOLEAN, t \in ValidateTexts}
    /\ env \in {[DefaultEnv EXCEPT !.command = "validate", !.filepath = path,
                                   !.language = l, !.ast = a] :
                    path \in ValidatePaths,
                    l \in {Null, Some("python"), Some("go")},
                    a \in {"ok", "SyntaxError", "Exception"}}
    /\ pc = "validate"
    /\ ps = NoParse
    /\ cs = NoClassify
    /\ out = NoOut

ValStart ==
    /\ pc = "validate"
    /\ out' = ValidateStart(env)
    /\ pc' = "validate:language"
    /\ UNCHANGED <<file, env, ps, cs>>

ValLanguage ==
    /\ pc = "validate:language"
    /\ out' = LanguageCheck(out, file, env)
    /\ pc' = "validate:markers"
    /\ UNCHANGED <<file, env, ps, cs>>

ValMarkers ==
    /\ pc = "validate:markers"
    /\ out' = MarkerCheck(out, file)
    /\ pc' = "done"
    /\ UNCHANGED <<file, env, ps, cs>>

NextValidate == ValStart \/ ValLanguage \/ ValMarkers

SpecValidate == InitValidate /\ [][NextValidate]_vars

-----------------------------------------------------------------------------
(* The command line, one command per step *)

\* git answers the queries in Q in every way, and the others normally
GitVarying(Q) ==
    {[q \in GitQueries |-> IF q \in Q THEN g[q] ELSE "ok"] : g \in [Q -> GitOutcomes]}

ShowQueries == {"show1", "show2", "show3"}
ContextQueries == {"merge-base", "log-ours", "log-theirs"}

CommandLines ==
    {[DefaultEnv EXCEPT !.command = "list", !.git = g] : g \in GitVarying({"status"})}
    \cup {[DefaultEnv EXCEPT !.command = "extract", !.git = g] : g \in GitVarying(ShowQueries)}
    \cup {[DefaultEnv EXCEPT !.command = "extract", !.with_context = TRUE, !.git = g] :
            g \in GitVarying(ShowQueries \cup ContextQueries)}
    \cup {[DefaultEnv EXCEPT !.command = "context", !.git = g] : g \in GitVarying(ContextQueries)}
    \cup {[DefaultEnv EXCEPT !.command = "categorize", !.git = g] : g \in GitVarying(ShowQueries)}
    \cup {[DefaultEnv EXCEPT !.command = "validate", !.language = l, !.ast = a] :
            l \in {Null, Some("go")}, a \in {"ok", "SyntaxError", "Exception"}}
    \cup {[DefaultEnv EXCEPT !.command = "backup", !.name = n, !.git = g] :
            n \in {Null, Some("before-merge")}, g \in GitVarying({"branch"})}
    \cup {DefaultEnv}

CommandFiles ==
    {[readable |-> TRUE, content |-> LineText],
     [readable |-> TRUE, content |-> LineText \o BlockText(SampleNumber)],
     [readable |-> FALSE, content |-> LineText \o BlockText(SampleNumber)]}

InitMain ==
    /\ file \in CommandFiles
    /\ env \in CommandLines
    /\ pc = "main"
    /\ ps = NoParse
    /\ cs = NoClassify
    /\ out = NoOut

CmdList ==
    /\ pc = "main" /\ env.command = "list"
    /\ out' = RunList(file, env)
    /\ pc' = "exited"
    /\ UNCHANGED <<file, env, ps, cs>>

CmdExtract ==
    /\ pc = "main" /\ env.command = "extract"
    /\ out' = RunExtract(file, env)
    /\ pc' = "exited"
    /\ UNCHANGED <<file, env, ps, cs>>

CmdContext ==
    /\ pc = "main" /\ env.command = "context"
    /\ out' = RunContext(file, env)
    /\ pc' = "exited"
    /\ UNCHANGED <<file, env, ps, cs>>

CmdCategorize ==
    /\ pc = "main" /\ env.command = "categorize"
    /\ out' = RunCategorize(file, env)
    /\ pc' = "exited"
    /\ UNCHANGED <<file, env, ps, cs>>

CmdValidate ==
    /\ pc = "main" /\ env.command = "validate"
    /\ out' = RunValidate(file, env)
    /\ pc' = "exited"
    /\ UNCHANGED <<file, env, ps, cs>>

CmdBackup ==
    /\ pc = "main" /\ env.command = "backup"
    /\ out' = RunBackup(file, env)
    /\ pc' = "exited"
    /\ UNCHANGED <<file, env, ps, cs>>

CmdHelp ==
    /\ pc = "main" /\ env.command = "none"
    /\ out' = RunHelp(file, env)
    /\ pc' = "exited"
    /\ UNCHANGED <<file, env, ps, cs>>

NextMain ==
    CmdList \/ CmdExtract \/ CmdContext \/ CmdCategorize \/ CmdValidate \/ CmdBackup \/ CmdHelp

SpecMain == InitMain /\ [][NextMain]_vars

-----------------------------------------------------------------------------
(* What the parser's contract says, stated on the lines of the text *)

IsOpenLine(l) == StartsWith(l, MarkerOpen)
IsSepLine(l) == StartsWith(l, MarkerSep)
IsCloseLine(l) == StartsWith(l, MarkerClose)
IsMarkerLine(l) == IsOpenLine(l) \/ IsSepLine(l) \/ IsCloseLine(l)

\* lines a < b < c of L are the only marker lines and form a triple
OneTriple(L, a, b, c) ==
    /\ a < b /\ b < c
    /\ IsOpenLine(L[a]) /\ IsSepLine(L[b]) /\ IsCloseLine(L[c])
    /\ \A k \in (1..Len(L)) \ {a, b, c} : ~IsMarkerLine(L[k])

\* the block the contract promises for the triple a, b, c
TripleBlockIs(L, a, b, c, blk) ==
    /\ blk.ours = Join(SubSeq(L, a + 1, b - 1))
    /\ blk.theirs = Join(SubSeq(L, b + 1, c - 1))
    /\ blk.start_line = a
    /\ blk.end_line = c

\* the opening marker on line a is never closed: no separator after it, or
\* no closing marker after the first separator that follows it
Unterminated(L, a) ==
    /\ IsOpenLine(L[a])
    /\ LET seps == {b \in (a + 1)..Len(L) : IsSepLine(L[b])}
       IN  \/ seps = {}
           \/ LET b == CHOOSE x \in seps : \A y \in seps : x <= y
              IN  \A c \in (b + 1)..Len(L) : ~IsCloseLine(L[c])

\* C1: a text with exactly one well-formed marker triple parses to exactly
\* one block: ours is the lines strictly between the opening marker and the
\* separator, theirs the lines strictly between the separator and the closing
\* marker (blank lines included, terminators kept), start_line and end_line
\* the 1-based line numbers of the opening and the closing marker.
C1_OneTripleOneBlock ==
    ps.pc = "done" =>
        \A a, b, c \in 1..Len(ps.lines) :
            OneTriple(ps.lines, a, b, c) =>
                /\ Len(ps.conflicts) = 1
                /\ TripleBlockIs(ps.lines, a, b, c, ps.conflicts[1])

\* a finished parse of one triple whose ours side holds a blank line
C1_Witness ==
    /\ ps.pc = "done"
    /\ \E a, b, c \in 1..Len(ps.lines) :
        /\ OneTriple(ps.lines, a, b, c)
        /\ b > a + 2 /\ c > b + 1
        /\ ps.lines[a + 1] = LineBlank
    /\ Len(ps.conflicts) = 1
    /\ ps.conflicts[1].ours # <<>>

\* C2: the blocks collected are in file order and do not overlap: each has
\* start_line < end_line, and each ends strictly before the next one starts.
C2_OrderedDisjoint ==
    /\ \A k \in 1..Len(ps.conflicts) :
        ps.conflicts[k].start_line < ps.conflicts[k].end_line
    /\ \A k \in 1..(Len(ps.conflicts) - 1) :
        ps.conflicts[k].end_line < ps.conflicts[k + 1].start_line

\* a finished parse that returned two blocks
C2_Witness == ps.pc = "done" /\ Len(ps.conflicts) >= 2

\* C3: when the input ends while ours or theirs is being collected, the
\* partial block is dropped: an opening marker that is never closed gives no
\* block at or after its line, a text with nothing opened before it parses to
\* no block at all, and a triple completed before it is still returned.
C3_UnterminatedDropped ==
    ps.pc = "done" =>
        \A a \in 1..Len(ps.lines) :
            Unterminated(ps.lines, a) =>
                /\ \A k \in 1..Len(ps.conflicts) : ps.conflicts[k].start_line < a
                /\ (\A k \in 1..(a - 1) : ~IsOpenLine(ps.lines[k])) => ps.conflicts = <<>>
                /\ \A x, y, z \in 1..(a - 1) :
                    OneTriple(SubSeq(ps.lines, 1, a - 1), x, y, z) =>
                        /\ Len(ps.conflicts) = 1
                        /\ TripleBlockIs(ps.lines, x, y, z, ps.conflicts[1])

\* the input ended inside theirs of a second block, after a first block was completed
C3_Witness ==
    /\ ps.pc = "done"
    /\ ps.i > Len(ps.lines)
    /\ Truthy(ps.separator_idx) /\ ps.end_idx = None
    /\ Unterminated(ps.lines, ps.start + 1)
    /\ Len(ps.conflicts) = 1
    /\ ps.conflicts[1].end_line < ps.start + 1

-----------------------------------------------------------------------------
(* What the classifier's contract says *)

\* the rules as the contract words them, each side of the block taken on its own
SaysImport(ours, theirs) ==
    \E keyword \in ImportKeywords : Contains(ours, keyword) \/ Contains(theirs, keyword)

SaysWhitespace(ours, theirs) ==
    LET Bare(s) == SelectSeq(s, LAMBDA ch : ch \notin {" ", "\t", "\n"})
    IN  Bare(ours) = Bare(theirs)

SaysSignature(ours, theirs) ==
    \E keyword \in DefKeywords : Contains(ours, keyword) \/ Contains(theirs, keyword)

SaysRename(ours, theirs) ==
    LET W(s) == WordSet(s)
        D == (W(ours) \cup W(theirs)) \ (W(ours) \cap W(theirs))
    IN  /\ \A d \in D : \E k \in 1..Len(d) : d[k] \notin Digits
        /\ Cardinality(D) < 3
        /\ W(ours) # {}

SaysType(marker) ==
    LET ours == Strip(marker.ours)
        theirs == Strip(marker.theirs)
    IN  CASE SaysImport(ours, theirs) -> "IMPORT"
          [] ~SaysImport(ours, theirs) /\ SaysWhitespace(ours, theirs) -> "WHITESPACE"
          [] ~SaysImport(ours, theirs) /\ ~SaysWhitespace(ours, theirs)
                /\ SaysSignature(ours, theirs) -> "FUNCTION_SIGNATURE"
          [] ~SaysImport(ours, theirs) /\ ~SaysWhitespace(ours, theirs)
                /\ ~SaysSignature(ours, theirs) /\ SaysRename(ours, theirs) -> "RENAME"
          [] OTHER -> "LOGIC"

\* the classifier is past its early return
Classifying == cs.pc \in {"loop", "returned"} /\ pc \in {"categorize", "done"}
                /\ "markers" \in DOMAIN cs

\* the loop has returned the normal verdict
Classified == pc = "done" /\ out.kind = "verdict" /\ "all_types" \in DOMAIN out

\* the rank of a difficulty in EASY < MEDIUM < HARD < ESCALATE
Rank(d) ==
    CASE d = "EASY" -> 0 [] d = "MEDIUM" -> 1 [] d = "HARD" -> 2 [] d = "ESCALATE" -> 3

\* C4: every block gets the type of the first rule that matches in the order
\* IMPORT, WHITESPACE, FUNCTION_SIGNATURE, RENAME, else LOGIC, where IMPORT
\* and FUNCTION_SIGNATURE match iff one side, taken on its own, holds a keyword.
C4_FirstMatchingRule ==
    Classifying =>
        \A k \in 1..cs.k : cs.conflict_types[k] = SaysType(cs.markers[k])

\* C5: with at least one LOGIC block the primary type is LOGIC and the
\* difficulty is ESCALATE for more than 3 blocks in the file, HARD for 3 or fewer.
C5_LogicEscalates ==
    (Classified /\ \E k \in 1..Len(out.all_types) : out.all_types[k] = "LOGIC") =>
        /\ out.type = "LOGIC"
        /\ out.difficulty = IF Len(cs.markers) > 3 THEN "ESCALATE" ELSE "HARD"

\* four blocks, all LOGIC, reported ESCALATE
C5_Witness ==
    /\ Classified
    /\ Len(cs.markers) = 4
    /\ \A k \in 1..4 : out.all_types[k] = "LOGIC"
    /\ out.difficulty = "ESCALATE"

\* C6: all_types has one entry per block, in block order, as many as
\* num_conflicts, and auto_resolvable is true iff every entry is IMPORT or
\* WHITESPACE.
C6_AutoResolvable ==
    Classified =>
        /\ Len(out.all_types) = out.num_conflicts
        /\ out.num_conflicts = Len(cs.markers)
        /\ \A k \in 1..Len(cs.markers) : out.all_types[k] = BlockType(cs.markers[k])
        /\ out.auto_resolvable =
             (\A k \in 1..Len(out.all_types) : out.all_types[k] \in {"IMPORT", "WHITESPACE"})

\* mechanical blocks and one RENAME block after them: not auto-resolvable
C6_Witness ==
    /\ Classified
    /\ Len(out.all_types) = 3
    /\ out.all_types[1] = "IMPORT" /\ out.all_types[2] = "WHITESPACE"
    /\ out.all_types[3] = "RENAME"
    /\ out.auto_resolvable = FALSE

\* C7: a file that cannot be read, or whose text parses to no block, gets
\* the UNKNOWN verdict (MEDIUM, not auto-resolvable); no other file gets type
\* UNKNOWN.
C7_UnknownVerdict ==
    (pc = "done" /\ env.command = "categorize") =>
        LET empty == ~file.readable \/ Len(ParseConflictMarkers(file.content)) = 0
        IN  /\ out.kind = "verdict"
            /\ empty =>
                /\ out.type = "UNKNOWN"
                /\ out.difficulty = "MEDIUM"
                /\ out.auto_resolvable = FALSE
            /\ out.type = "UNKNOWN" => empty

\* an unreadable file that holds a conflict region got the UNKNOWN verdict
C7_Witness ==
    /\ pc = "done" /\ env.command = "categorize"
    /\ ~file.readable
    /\ Contains(file.content, MarkerOpen)
    /\ out.type = "UNKNOWN"

\* C10: the running difficulty starts at EASY, never decreases from one block
\* to the next, and the difficulty reported after the last block is not lower
\* than the running difficulty the loop reached.
C10_DifficultyMonotone ==
    [][/\ (cs.pc = "idle" /\ cs'.pc = "loop") => cs'.max_difficulty = "EASY"
       /\ (cs.pc = "loop" /\ cs'.pc = "loop") =>
            Rank(cs'.max_difficulty) >= Rank(cs.max_difficulty)
       /\ (cs.pc = "loop" /\ cs'.pc = "returned") =>
            Rank(out'.difficulty) >= Rank(cs.max_difficulty)]_vars

\* a FUNCTION_SIGNATURE or RENAME block right after a LOGIC block, still HARD
C10_Witness ==
    /\ cs.pc = "loop"
    /\ cs.k >= 2
    /\ cs.conflict_types[cs.k - 1] = "LOGIC"
    /\ cs.conflict_types[cs.k] \in {"FUNCTION_SIGNATURE", "RENAME"}
    /\ cs.max_difficulty = "HARD"

-----------------------------------------------------------------------------
(* What the validation gate's contract says *)

\* C8: whenever one of the three marker tokens remains anywhere in the file,
\* the report has syntax_valid = false and a semantic error about remaining
\* conflict markers, whatever the language and whatever its check concluded.
C8_MarkersForceInvalid ==
    (pc = "done" /\ env.command = "validate"
        /\ \E token \in {MarkerOpen, MarkerSep, MarkerClose} : Contains(file.content, token))
    => /\ out.syntax_valid = Some(FALSE)
       /\ \E k \in 1..Len(out.semantic_errors) :
            out.semantic_errors[k] = "Conflict markers still present"

-----------------------------------------------------------------------------
(* What the command line's contract says *)

\* the queries a command makes, given how the earlier ones were answered
ContextQueriesMade(e) ==
    {"merge-base"}
    \cup (IF e.git["merge-base"] = "ok" THEN {"log-ours"} ELSE {})
    \cup (IF e.git["merge-base"] = "ok" /\ e.git["log-ours"] # "missing"
          THEN {"log-theirs"} ELSE {})

QueriesMade(e) ==
    CASE e.command = "list" -> {"status"}
      [] e.command = "backup" -> {"branch"}
      [] e.command = "categorize" -> ShowQueries
      [] e.command = "context" -> ContextQueriesMade(e)
      [] e.command = "extract" ->
            ShowQueries \cup (IF e.with_context THEN ContextQueriesMade(e) ELSE {})
      [] OTHER -> {}

\* the command aborted: nothing on stdout, the error object on stderr, exit code 1
Aborted ==
    /\ out.stdout = <<>>
    /\ out.exit_code = 1
    /\ \E k \in 1..Len(out.stderr) : out.stderr[k].json

\* the command printed its one JSON document and exited with code 0
Succeeded ==
    /\ Len(out.stdout) = 1
    /\ out.exit_code = 0
    /\ \A k \in 1..Len(out.stderr) : ~out.stderr[k].json

====
